---- MODULE Spec2Model ----
(***************************************************************************)
(* Model of two pieces of the Sage repository:                             *)
(*   - FreeBosonsLieConformalAlgebra (constructor and gram_matrix()),      *)
(*     src/src/sage/algebras/lie_conformal_algebras/                       *)
(*         free_bosons_lie_conformal_algebra.py                            *)
(*   - build_py.run / build_py._create_writable_sage_root,                 *)
(*     src/pkgs/sage-conf_conda/setup.py                                   *)
(*                                                                         *)
(* Python values are encoded as follows.  An optional argument is the      *)
(* empty tuple (None) or a one-element tuple holding the value.  A ring    *)
(* element is a reduced fraction <<num, den>>.  A matrix is a record       *)
(* [nrows, ncols, e] with e a function on 0-based index pairs.  Matrices   *)
(* are Python objects: they live in a heap and are passed by reference.    *)
(* The assert statement of __init__ is executed (the interpreter is not    *)
(* run with -O).                                                           *)
(***************************************************************************)
EXTENDS Integers, Sequences, FiniteSets, TLC

\* ------------------------------------------------------------------------
\* Bounds
\* ------------------------------------------------------------------------
MaxDim == 2          \* largest number of rows / columns / generators tried
MaxWrites == 1       \* caller writes to a matrix after the construction
MaxRuns == 3         \* successive runs of build_py.run

\* ------------------------------------------------------------------------
\* Python values
\* ------------------------------------------------------------------------
None == <<>>
Some(x) == <<x>>

Zero == <<0, 1>>
One == <<1, 1>>
Half == <<1, 2>>
Entries == {Zero, One, Half}
Rings == {"ZZ", "QQ"}

\* membership of a scalar in the ground ring
InRing(R, x) == IF R = "ZZ" THEN x[2] = 1 ELSE TRUE

Idx(n) == 0 .. (n - 1)

MatricesOf(r, c) ==
  { [nrows |-> r, ncols |-> c, e |-> f] : f \in [Idx(r) \X Idx(c) -> Entries] }

Matrices == UNION { MatricesOf(r, c) : r \in 1 .. MaxDim, c \in 1 .. MaxDim }

\* Matrix.dimensions()
dimensions(M) == <<M.nrows, M.ncols>>

\* gram_matrix in MatrixSpace(R, n, m)
InMatrixSpace(M, R, n, m) ==
  /\ M.nrows = n
  /\ M.ncols = m
  /\ \A p \in DOMAIN M.e : InRing(R, M.e[p])

\* Matrix.is_symmetric()
is_symmetric(M) ==
  /\ M.nrows = M.ncols
  /\ \A i \in Idx(M.nrows), j \in Idx(M.ncols) : M.e[<<i, j>>] = M.e[<<j, i>>]

\* identity_matrix(R, n, n)
identity_matrix(R, n, m) ==
  [nrows |-> n, ncols |-> m,
   e |-> [p \in Idx(n) \X Idx(m) |-> IF p[1] = p[2] THEN One ELSE Zero]]

\* ------------------------------------------------------------------------
\* Generator names and index sets
\* A label is <<base, k>>: the name base followed by the digit k, or the
\* bare name base when k = -1.
\* ------------------------------------------------------------------------
Bare(s) == <<s, -1>>
GivenNames == <<"a", "b", "c", "d">>

\* a single name stands for a family name0, name1, ...; n names are kept
ExpandNames(names, ngens) ==
  IF Len(names) = 1 /\ ngens > 1
  THEN [k \in 1 .. ngens |-> <<names[1][1], k - 1>>]
  ELSE names

\* standardize_names_index_set(names=, index_set=, ngens=): the resolved
\* names and an index set of ngens labels (the names when no index set is
\* given)
standardize_names_index_set(names, index_set, ngens) ==
  LET nm == IF names = None THEN None ELSE ExpandNames(names[1], ngens)
  IN  [names |-> nm,
       index_set |-> IF index_set = None THEN nm ELSE index_set[1]]

\* index_set.rank(i), 0-based
rank(index_set, i) == (CHOOSE k \in DOMAIN index_set : index_set[k] = i) - 1

\* ------------------------------------------------------------------------
\* FreeBosonsLieConformalAlgebra.__init__, step by step
\* ------------------------------------------------------------------------

\* variant: the row count of a supplied matrix is not used
init_ngens_noinfer(ngens, gram_matrix) ==
  IF ngens = None THEN 1 ELSE ngens[1]

\* variant: without a matrix the default 1 is always taken
init_ngens_default1(ngens, gram_matrix) ==
  IF gram_matrix # None
  THEN IF ngens = None THEN dimensions(gram_matrix[1])[1] ELSE ngens[1]
  ELSE 1

\* the number of generators: the argument, else the row count of the
\* supplied matrix, else 1
init_ngens(ngens, gram_matrix) ==
  IF gram_matrix # None
  THEN IF ngens = None THEN dimensions(gram_matrix[1])[1] ELSE ngens[1]
  ELSE IF ngens = None THEN 1 ELSE ngens[1]

\* ValueError("the gram_matrix should be a symmetric {0} x {0} matrix,
\* got {1}".format(ngens, gram_matrix))
ValueError(ngens, gram_matrix) ==
  [type |-> "ValueError", expected |-> <<ngens, ngens>>, got |-> gram_matrix]

IndexError == [type |-> "IndexError", expected |-> <<0, 0>>, got |-> None]

\* variant: the symmetry test is missing
init_check_nosym(R, ngens, gram_matrix) ==
  IF ~ InMatrixSpace(gram_matrix, R, ngens, ngens)
  THEN Some(ValueError(ngens, gram_matrix))
  ELSE None

\* variant: the matrix-space membership test is missing
init_check_nomember(R, ngens, gram_matrix) ==
  IF ~ is_symmetric(gram_matrix)
  THEN Some(ValueError(ngens, gram_matrix))
  ELSE None

\* the validation of a supplied matrix: None, or the error raised
init_check(R, ngens, gram_matrix) ==
  IF ~ InMatrixSpace(gram_matrix, R, ngens, ngens)
  THEN Some(ValueError(ngens, gram_matrix))
  ELSE IF ~ is_symmetric(gram_matrix)
       THEN Some(ValueError(ngens, gram_matrix))
       ELSE None

\* names, latex_names and index_set as resolved before the table is built
init_names(names, index_set, ngens) ==
  LET dflt == names = None /\ index_set = None
      nm == IF dflt THEN Some(<<Bare("alpha")>>) ELSE names
      std == standardize_names_index_set(nm, index_set, ngens)
  IN  [names |-> std.names,
       index_set |-> std.index_set,
       latex_names |-> IF dflt
                       THEN Some([k \in 1 .. (ngens + 1) |->
                                    IF k <= ngens THEN <<"\\alpha_", k - 1>>
                                    ELSE Bare("K")])
                       ELSE None]

\* variant: ranks taken 1-based
init_lookups_onebased(index_set) ==
  { <<rank(index_set, i) + 1, rank(index_set, j) + 1>> :
      i \in { index_set[k] : k \in DOMAIN index_set },
      j \in { index_set[k] : k \in DOMAIN index_set } }

\* the pairs (row, column) read from the matrix while the table is built
init_lookups(index_set) ==
  { <<rank(index_set, i), rank(index_set, j)>> :
      i \in { index_set[k] : k \in DOMAIN index_set },
      j \in { index_set[k] : k \in DOMAIN index_set } }

\* gram_matrix[r, c] raises IndexError outside the matrix
getitem_ok(M, p) == p[1] \in Idx(M.nrows) /\ p[2] \in Idx(M.ncols)

CentralKey == <<"K", 0>>

\* variant: pairs with a zero Gram entry are left out of the table
bosondict_sparse(gram_matrix, index_set) ==
  LET labels == { index_set[k] : k \in DOMAIN index_set }
      nz == { ij \in labels \X labels :
                gram_matrix.e[<<rank(index_set, ij[1]),
                                rank(index_set, ij[2])>>] # Zero }
  IN  [ij \in nz |->
         [w \in {1} |->
            [c \in {CentralKey} |->
               gram_matrix.e[<<rank(index_set, ij[1]),
                               rank(index_set, ij[2])>>]]]]

\* bosondict = {(i, j): {1: {('K', 0): gram_matrix[rank(i), rank(j)]}} ...}
bosondict(gram_matrix, index_set) ==
  LET labels == { index_set[k] : k \in DOMAIN index_set }
  IN  [ij \in labels \X labels |->
         [w \in {1} |->
            [c \in {CentralKey} |->
               gram_matrix.e[<<rank(index_set, ij[1]),
                               rank(index_set, ij[2])>>]]]]

\* the matrix the algebra keeps: the caller's, else a new identity matrix
init_gram(R, ngens, gram_matrix) ==
  IF gram_matrix # None THEN gram_matrix[1]
  ELSE identity_matrix(R, ngens, ngens)

\* ------------------------------------------------------------------------
\* State
\* ------------------------------------------------------------------------
VARIABLES
  args,      \* the arguments of the constructor call; gram_matrix is a
             \* reference into heap, gram_value the matrix at call time
  heap,      \* the matrix objects, by reference (index)
  phase,     \* "new" before the call, then "built" or "failed"
  self,      \* the algebra object, None until built
  error,     \* the exception raised by the constructor, or None
  lookups,   \* entries gram_matrix[r, c] read while the table was built
  ret,       \* the reference last returned by gram_matrix(), or None
  writes     \* number of caller writes into a matrix it holds

algvars == <<args, heap, phase, self, error, lookups, ret, writes>>

VARIABLES
  rootExists,        \* the directory SAGE_ROOT under DOT_SAGE exists
  rootConfigStatus,  \* SAGE_ROOT/config.status exists there
  treeConfigStatus,  \* HERE/sage_root/config.status exists (in-tree)
  confPy,            \* run that last wrote HERE/_sage_conf/_conf.py, else 0
  envConfig,         \* run that last wrote HERE/bin/sage-env-config, else 0
  runs,              \* number of runs of build_py.run so far
  last               \* what the last run of build_py.run did

buildvars == <<rootExists, rootConfigStatus, treeConfigStatus,
               confPy, envConfig, runs, last>>

vars == <<algvars, buildvars>>

NoRun ==
  [editable_mode |-> FALSE, CONDA_PREFIX |-> "", exit |-> 0,
   sage_root |-> "none", copytree |-> FALSE, configure |-> FALSE,
   warning |-> FALSE, prereq_hint |-> FALSE, copy_conf |-> FALSE,
   copy_env |-> FALSE, base_run |-> FALSE, result |-> "none"]

\* no build has been run: SAGE_ROOT does not exist yet
BuildFresh ==
  /\ rootExists = FALSE
  /\ rootConfigStatus = FALSE
  /\ treeConfigStatus \in BOOLEAN
  /\ confPy = 0
  /\ envConfig = 0
  /\ runs = 0
  /\ last = NoRun

\* ------------------------------------------------------------------------
\* Constructor inputs
\* ------------------------------------------------------------------------
NgensChoices == {None} \cup { Some(n) : n \in 1 .. MaxDim }
GramChoices == {None} \cup { Some(M) : M \in Matrices }

\* names: omitted, one family name, or one name per generator
NameChoices(n) ==
  {None, Some(<<Bare("x")>>), Some([k \in 1 .. n |-> Bare(GivenNames[k])])}

\* index_set: omitted, or n labels listed in descending order
IndexChoices(n) ==
  {None, Some([k \in 1 .. n |-> <<"g", n - k>>])}

InitAlg ==
  /\ BuildFresh
  /\ treeConfigStatus = FALSE
  /\ \E R \in Rings, ng \in NgensChoices, gm \in GramChoices :
       \E nm \in NameChoices(init_ngens(ng, gm)),
          ix \in IndexChoices(init_ngens(ng, gm)) :
         /\ args = [R |-> R, ngens |-> ng,
                    gram_matrix |-> IF gm = None THEN None ELSE Some(1),
                    gram_value |-> gm,
                    names |-> nm, index_set |-> ix]
         /\ heap = IF gm = None THEN <<>> ELSE <<gm[1]>>
  /\ phase = "new"
  /\ self = None
  /\ error = None
  /\ lookups = {}
  /\ ret = None
  /\ writes = 0

\* ------------------------------------------------------------------------
\* FreeBosonsLieConformalAlgebra(R, ngens, gram_matrix, names, index_set)
\* ------------------------------------------------------------------------
Construct ==
  /\ phase = "new"
  /\ LET gm == IF args.gram_matrix = None THEN None
               ELSE Some(heap[args.gram_matrix[1]])
         ngens == init_ngens(args.ngens, gm)
         err == IF gm = None THEN None ELSE init_check(args.R, ngens, gm[1])
     IN
       IF err # None
       THEN /\ phase' = "failed"
            /\ error' = err
            /\ UNCHANGED <<heap, self, lookups>>
       ELSE
         LET gram == init_gram(args.R, ngens, gm)
             heap1 == IF gm = None THEN Append(heap, gram) ELSE heap
             gref == IF gm = None THEN Len(heap1) ELSE args.gram_matrix[1]
             ni == init_names(args.names, args.index_set, ngens)
             reads == init_lookups(ni.index_set)
             bad == { p \in reads : ~ getitem_ok(gram, p) }
             first(p) == \A q \in bad : p[1] * ngens + p[2] < q[1] * ngens + q[2]
         IN
           /\ heap' = heap1
           /\ lookups' = { p \in reads : first(p) }
           /\ IF bad # {}
              THEN /\ phase' = "failed"
                   /\ error' = Some(IndexError)
                   /\ self' = None
              ELSE /\ phase' = "built"
                   /\ error' = None
                   /\ self' = Some([base_ring |-> args.R,
                                    names |-> ni.names,
                                    latex_names |-> ni.latex_names,
                                    index_set |-> ni.index_set,
                                    central_elements |-> <<"K">>,
                                    table |-> bosondict(gram, ni.index_set),
                                    _gram_matrix |-> gref])
  /\ UNCHANGED <<args, ret, writes>>
  /\ UNCHANGED buildvars

\* FreeBosonsLieConformalAlgebra.gram_matrix(): return self._gram_matrix
gram_matrix ==
  /\ phase = "built"
  /\ ret' = Some(self[1]._gram_matrix)
  /\ UNCHANGED <<args, heap, phase, self, error, lookups, writes>>
  /\ UNCHANGED buildvars

\* the matrices the caller holds a reference to
CallerRefs ==
  { r \in DOMAIN heap : args.gram_matrix = Some(r) \/ ret = Some(r) }

\* the caller assigns an entry of a matrix it holds: M[i, j] = v
\* (the constructor neither copies the matrix nor makes it immutable)
CallerSetItem ==
  /\ phase = "built"
  /\ writes < MaxWrites
  /\ \E r \in CallerRefs :
       \E p \in DOMAIN heap[r].e, v \in Entries :
         heap' = [heap EXCEPT ![r].e[p] = v]
  /\ writes' = writes + 1
  /\ UNCHANGED <<args, phase, self, error, lookups, ret>>
  /\ UNCHANGED buildvars

NextAlg == Construct \/ gram_matrix
NextAlias == Construct \/ gram_matrix \/ CallerSetItem

SpecAlg == InitAlg /\ [][NextAlg]_vars
SpecAlias == InitAlg /\ [][NextAlias]_vars

\* ------------------------------------------------------------------------
\* build_py (pkgs/sage-conf_conda/setup.py)
\* ------------------------------------------------------------------------

\* shutil.copytree('sage_root', SAGE_ROOT, ignore=ignore): fails when the
\* destination exists; any other failure may leave a partial copy.  The
\* ignore function leaves config.status out of the copy.
CopyOutcomes == {"ok", "error", "partial"}

\* variant: copytree called with dirs_exist_ok=True
create_writable_sage_root_overwrite(exists, status, outcome) ==
  IF ~ status
  THEN IF outcome = "ok"
       THEN [raised |-> FALSE, copytree |-> TRUE,
             exists |-> TRUE, status |-> FALSE]
       ELSE [raised |-> TRUE, copytree |-> FALSE,
             exists |-> (exists \/ outcome = "partial"), status |-> FALSE]
  ELSE [raised |-> FALSE, copytree |-> FALSE,
        exists |-> exists, status |-> status]

\* variant: the test is on SAGE_ROOT instead of SAGE_ROOT/config.status
create_writable_sage_root_direxists(exists, status, outcome) ==
  IF ~ exists
  THEN IF outcome = "ok"
       THEN [raised |-> FALSE, copytree |-> TRUE,
             exists |-> TRUE, status |-> FALSE]
       ELSE [raised |-> TRUE, copytree |-> FALSE,
             exists |-> (outcome = "partial"), status |-> FALSE]
  ELSE [raised |-> FALSE, copytree |-> FALSE,
        exists |-> exists, status |-> status]

\* build_py._create_writable_sage_root: whether SetupError is raised,
\* whether the tree was copied, and the directory afterwards
_create_writable_sage_root(exists, status, outcome) ==
  IF ~ status
  THEN IF exists
       THEN [raised |-> TRUE, copytree |-> FALSE,
             exists |-> TRUE, status |-> FALSE]
       ELSE IF outcome = "ok"
            THEN [raised |-> FALSE, copytree |-> TRUE,
                  exists |-> TRUE, status |-> FALSE]
            ELSE [raised |-> TRUE, copytree |-> FALSE,
                  exists |-> (outcome = "partial"), status |-> FALSE]
  ELSE [raised |-> FALSE, copytree |-> FALSE,
        exists |-> exists, status |-> status]

\* variant: every non-zero exit code raises
after_configure_strict(exit, status) ==
  IF exit # 0 THEN "raise" ELSE "ok"

\* the branch taken after os.system(cmd): "ok", "warn" (a warning is
\* printed and the run goes on) or "raise" (SetupError("configure failed"))
after_configure(exit, status) ==
  IF exit # 0
  THEN IF status THEN "warn" ELSE "raise"
  ELSE "ok"

\* the configure script: exit code 0 means config.status was written; a
\* failing configure may or may not have written it, and never removes it
ConfigureOutcomes ==
  { o \in [exit : {0, 1}, writes : BOOLEAN] : o.exit = 0 => o.writes }

CondaPrefixes == {"", "/opt/conda"}

\* build_py.run.  The files listed in AC_CONFIG_FILES are written together
\* with config.status, so the two copyfile calls find their sources
\* whenever the run reaches them.
run ==
  /\ runs < MaxRuns
  /\ \E editable_mode \in BOOLEAN, CONDA_PREFIX \in CondaPrefixes,
        cp \in CopyOutcomes, cf \in ConfigureOutcomes :
       LET cw == IF editable_mode
                 THEN [raised |-> FALSE, copytree |-> FALSE,
                       exists |-> rootExists, status |-> rootConfigStatus]
                 ELSE _create_writable_sage_root(rootExists,
                                                 rootConfigStatus, cp)
           SAGE_ROOT == IF editable_mode THEN "HERE/sage_root"
                        ELSE "DOT_SAGE/sage-conda"
           before == IF editable_mode THEN treeConfigStatus ELSE cw.status
           after == before \/ cf.writes
           branch == after_configure(cf.exit, after)
           base == [NoRun EXCEPT !.editable_mode = editable_mode,
                                 !.CONDA_PREFIX = CONDA_PREFIX,
                                 !.copytree = cw.copytree]
       IN
         /\ runs' = runs + 1
         /\ rootExists' = cw.exists
         /\ IF cw.raised
            THEN /\ last' = [base EXCEPT !.result = "SetupError: SAGE_ROOT exists"]
                 /\ rootConfigStatus' = cw.status
                 /\ UNCHANGED <<treeConfigStatus, confPy, envConfig>>
            ELSE IF CONDA_PREFIX = ""
            THEN /\ last' = [base EXCEPT !.sage_root = SAGE_ROOT,
                                         !.result = "SetupError: no conda"]
                 /\ rootConfigStatus' = cw.status
                 /\ UNCHANGED <<treeConfigStatus, confPy, envConfig>>
            ELSE
              /\ rootConfigStatus' = IF editable_mode THEN cw.status ELSE after
              /\ treeConfigStatus' = IF editable_mode THEN after
                                     ELSE treeConfigStatus
              /\ IF branch = "raise"
                 THEN /\ last' = [base EXCEPT !.sage_root = SAGE_ROOT,
                                              !.exit = cf.exit,
                                              !.configure = TRUE,
                                              !.prereq_hint = TRUE,
                                              !.result = "SetupError: configure failed"]
                      /\ UNCHANGED <<confPy, envConfig>>
                 ELSE /\ last' = [base EXCEPT !.sage_root = SAGE_ROOT,
                                              !.exit = cf.exit,
                                              !.configure = TRUE,
                                              !.warning = (branch = "warn"),
                                              !.copy_conf = ~ editable_mode,
                                              !.copy_env = TRUE,
                                              !.base_run = TRUE,
                                              !.result = "ok"]
                      /\ confPy' = IF editable_mode THEN confPy ELSE runs + 1
                      /\ envConfig' = runs + 1
  /\ UNCHANGED algvars

\* the user removes the directory SAGE_ROOT
RemoveSageRoot ==
  /\ rootExists
  /\ rootExists' = FALSE
  /\ rootConfigStatus' = FALSE
  /\ UNCHANGED <<treeConfigStatus, confPy, envConfig, runs, last>>
  /\ UNCHANGED algvars

InitBuild ==
  /\ BuildFresh
  /\ args = [R |-> "ZZ", ngens |-> None, gram_matrix |-> None,
             gram_value |-> None, names |-> None, index_set |-> None]
  /\ heap = <<>>
  /\ phase = "new"
  /\ self = None
  /\ error = None
  /\ lookups = {}
  /\ ret = None
  /\ writes = 0

NextBuild == run \/ RemoveSageRoot

SpecBuild == InitBuild /\ [][NextBuild]_vars

\* ------------------------------------------------------------------------
\* Properties of the constructor
\* ------------------------------------------------------------------------
Supplied == args.gram_value # None
GivenM == args.gram_value[1]
Called == phase # "new"

Symmetric(M) ==
  /\ M.nrows = M.ncols
  /\ \A i \in 0 .. (M.nrows - 1), j \in 0 .. (M.nrows - 1) :
       M.e[<<i, j>>] = M.e[<<j, i>>]

OverRing(M, R) == \A p \in DOMAIN M.e : R = "QQ" \/ M.e[p][2] = 1

\* the generator count the caller asked for: ngens, else the row count of
\* the supplied matrix, else 1
AskedNgens ==
  IF args.ngens # None THEN args.ngens[1]
  ELSE IF Supplied THEN GivenM.nrows ELSE 1

IsIdentity(M, n) ==
  /\ M.nrows = n
  /\ M.ncols = n
  /\ \A i \in 0 .. (n - 1), j \in 0 .. (n - 1) :
       M.e[<<i, j>>] = IF i = j THEN <<1, 1>> ELSE <<0, 1>>

\* what gram_matrix() returns in the current state
Queried == heap[self[1]._gram_matrix]

C1_Pre ==
  /\ Supplied
  /\ Symmetric(GivenM)
  /\ OverRing(GivenM, args.R)
  /\ args.ngens = None \/ args.ngens = Some(GivenM.nrows)

\* C1: a symmetric n x n matrix M over R, with ngens = n or omitted, is
\* accepted, and gram_matrix() on the result returns a matrix equal to M.
C1_GramMatrixKept ==
  (C1_Pre /\ Called) =>
    /\ phase = "built"
    /\ Queried = GivenM
    /\ ret # None => heap[ret[1]] = GivenM

C1_Witness ==
  /\ C1_Pre
  /\ args.ngens = None
  /\ GivenM.nrows = 2
  /\ GivenM.e[<<0, 1>>] # <<0, 1>>
  /\ ret # None

\* C2: with gram_matrix omitted the Gram matrix is the n x n identity,
\* n being ngens, or 1 when ngens is omitted too.
C2_DefaultIdentity ==
  (~ Supplied /\ Called) =>
    /\ phase = "built"
    /\ IsIdentity(Queried, IF args.ngens = None THEN 1 ELSE args.ngens[1])
    /\ OverRing(Queried, args.R)
    /\ ret # None =>
         IsIdentity(heap[ret[1]], IF args.ngens = None THEN 1 ELSE args.ngens[1])

C2_Witness ==
  /\ ~ Supplied
  /\ args.ngens = Some(2)
  /\ ret # None

C2_WitnessBothOmitted ==
  /\ ~ Supplied
  /\ args.ngens = None
  /\ ret # None

\* the validation error: a ValueError naming the expected shape and the
\* offending matrix
IsInvalidInput(n, M) ==
  /\ error # None
  /\ error[1].type = "ValueError"
  /\ error[1].expected = <<n, n>>
  /\ error[1].got = M

\* C3: a supplied matrix that is not symmetric makes the construction fail
\* with the ValueError naming the ngens x ngens shape and the matrix, and
\* no algebra object is produced.
C3_AsymmetricRejected ==
  (Supplied /\ ~ Symmetric(GivenM) /\ Called) =>
    /\ phase = "failed"
    /\ IsInvalidInput(AskedNgens, GivenM)
    /\ self = None

C3_Witness ==
  /\ Supplied
  /\ GivenM.nrows = 2
  /\ GivenM.ncols = 2
  /\ GivenM.e[<<0, 1>>] # GivenM.e[<<1, 0>>]
  /\ OverRing(GivenM, args.R)
  /\ args.ngens = Some(2)
  /\ phase = "failed"

\* C4: a supplied matrix whose dimensions disagree with an explicit ngens
\* makes the construction fail with the ValueError naming the
\* ngens x ngens shape, before any entry of the table is computed.
C4_DimensionMismatchRejected ==
  (/\ Supplied
   /\ args.ngens # None
   /\ <<GivenM.nrows, GivenM.ncols>> # <<args.ngens[1], args.ngens[1]>>
   /\ Called) =>
    /\ phase = "failed"
    /\ IsInvalidInput(args.ngens[1], GivenM)
    /\ self = None
    /\ lookups = {}

C4_Witness ==
  /\ Supplied
  /\ args.ngens = Some(2)
  /\ GivenM.nrows = 1
  /\ GivenM.ncols = 1
  /\ phase = "failed"

Labels == { self[1].index_set[k] : k \in DOMAIN self[1].index_set }
RankOf(i) == (CHOOSE k \in DOMAIN self[1].index_set : self[1].index_set[k] = i) - 1

\* C5: the table of a constructed algebra has ngens^2 keys, one per ordered
\* pair of labels (diagonal and zero entries included); the entry of (i, j)
\* is {1: {('K', 0): gram_matrix[rank(i), rank(j)]}} and equals that of
\* (j, i).
C5_TableShape ==
  phase = "built" =>
    /\ Cardinality(Labels) = AskedNgens
    /\ DOMAIN self[1].table = Labels \X Labels
    /\ Cardinality(DOMAIN self[1].table) = AskedNgens * AskedNgens
    /\ \A i \in Labels, j \in Labels :
         /\ DOMAIN self[1].table[<<i, j>>] = {1}
         /\ DOMAIN self[1].table[<<i, j>>][1] = {<<"K", 0>>}
         /\ self[1].table[<<i, j>>][1][<<"K", 0>>] =
              Queried.e[<<RankOf(i), RankOf(j)>>]
         /\ self[1].table[<<i, j>>] = self[1].table[<<j, i>>]

C5_Witness ==
  /\ phase = "built"
  /\ AskedNgens = 2
  /\ Supplied
  /\ GivenM.e[<<0, 1>>] = <<0, 1>>
  /\ GivenM.e[<<0, 0>>] # GivenM.e[<<1, 1>>]
  /\ args.index_set # None

C6_Pre ==
  Supplied =>
    /\ Symmetric(GivenM)
    /\ OverRing(GivenM, args.R)
    /\ GivenM.nrows = AskedNgens

C7_GramAgreesWithTable ==
  phase = "built" =>
    \A i \in Labels, j \in Labels :
      self[1].table[<<i, j>>][1][<<"K", 0>>] = Queried.e[<<RankOf(i), RankOf(j)>>]

\* ------------------------------------------------------------------------
\* Properties of build_py
\* ------------------------------------------------------------------------
IsRun == runs' = runs + 1
SetupErrors == {"SetupError: SAGE_ROOT exists", "SetupError: no conda",
                "SetupError: configure failed"}

\* config.status in the SAGE_ROOT the last run worked in
StatusInUsedRoot ==
  IF last.editable_mode THEN treeConfigStatus ELSE rootConfigStatus

\* C8: configure exiting non-zero with config.status present only prints a
\* warning and the run goes on as on success; without config.status
\* SetupError("configure failed") is raised and nothing is copied nor is
\* the base run executed; with CONDA_PREFIX unset or empty SetupError is
\* raised and configure is never invoked.
C8_ConfigureFailure ==
  [][IsRun =>
      /\ (last'.configure /\ last'.exit # 0 /\ StatusInUsedRoot') =>
           /\ last'.warning
           /\ last'.result = "ok"
           /\ last'.copy_conf = ~ last'.editable_mode
           /\ last'.copy_env
           /\ last'.base_run
           /\ envConfig' = runs'
           /\ ~ last'.editable_mode => confPy' = runs'
      /\ (last'.configure /\ last'.exit # 0 /\ ~ StatusInUsedRoot') =>
           /\ last'.result = "SetupError: configure failed"
           /\ ~ last'.copy_conf
           /\ ~ last'.copy_env
           /\ ~ last'.base_run
           /\ confPy' = confPy
           /\ envConfig' = envConfig
      /\ (last'.configure /\ last'.exit = 0) =>
           /\ ~ last'.warning
           /\ last'.copy_conf = ~ last'.editable_mode
           /\ last'.copy_env
           /\ last'.base_run
      /\ last'.CONDA_PREFIX = "" =>
           /\ last'.result \in SetupErrors
           /\ ~ last'.configure
  ]_vars

C8_Witness ==
  /\ last.configure
  /\ last.exit # 0
  /\ last.warning
  /\ ~ last.editable_mode
  /\ last.base_run
  /\ confPy = runs

\* C9: a non-editable run copies sage_root only when SAGE_ROOT/config.status
\* is missing; with config.status the existing SAGE_ROOT is used, not
\* copied over; an existing SAGE_ROOT without config.status raises
\* SetupError; so configure only runs in a fresh copy or in a directory
\* that already had config.status.  An editable run copies nothing and
\* works in the in-tree sage_root.
C9_WritableSageRoot ==
  [][IsRun =>
      /\ ~ last'.editable_mode =>
           /\ last'.copytree => (~ rootConfigStatus /\ ~ rootExists)
           /\ rootConfigStatus =>
                /\ ~ last'.copytree
                /\ rootExists'
                /\ rootConfigStatus'
                /\ last'.result # "SetupError: SAGE_ROOT exists"
           /\ (rootExists /\ ~ rootConfigStatus) =>
                /\ ~ last'.copytree
                /\ last'.result = "SetupError: SAGE_ROOT exists"
           /\ last'.configure =>
                /\ last'.copytree \/ rootConfigStatus
                /\ last'.sage_root = "DOT_SAGE/sage-conda"
      /\ last'.editable_mode =>
           /\ ~ last'.copytree
           /\ rootExists' = rootExists
           /\ rootConfigStatus' = rootConfigStatus
           /\ last'.configure => last'.sage_root = "HERE/sage_root"
  ]_vars

C9_Witness ==
  /\ runs >= 2
  /\ ~ last.editable_mode
  /\ last.result = "SetupError: SAGE_ROOT exists"
  /\ rootExists
  /\ ~ rootConfigStatus

\* a run leaves a configured SAGE_ROOT configured and an unconfigured one
\* unconfigured
RootStateKept ==
  /\ rootConfigStatus => rootConfigStatus'
  /\ (rootExists /\ ~ rootConfigStatus) => (rootExists' /\ ~ rootConfigStatus')

UnconfiguredRaises ==
  (~ last'.editable_mode /\ rootExists /\ ~ rootConfigStatus) =>
    /\ last'.result = "SetupError: SAGE_ROOT exists"
    /\ ~ last'.configure

\* C10 as stated: once SAGE_ROOT has config.status every later non-editable
\* run reuses it without copying and proceeds to configure; once SAGE_ROOT
\* exists without config.status every later non-editable run raises
\* SetupError before configure, until the directory is removed.
C10_AsStated ==
  [][IsRun =>
      /\ RootStateKept
      /\ UnconfiguredRaises
      /\ (~ last'.editable_mode /\ rootConfigStatus) =>
           /\ ~ last'.copytree
           /\ last'.configure
  ]_vars

\* C10, amended: as stated, except that the later run on a configured
\* SAGE_ROOT proceeds to configure only when CONDA_PREFIX is set; with
\* CONDA_PREFIX unset or empty it raises SetupError after reusing the
\* directory, without invoking configure.
C10_SuccessiveRuns ==
  [][IsRun =>
      /\ RootStateKept
      /\ UnconfiguredRaises
      /\ (~ last'.editable_mode /\ rootConfigStatus) =>
           /\ ~ last'.copytree
           /\ last'.sage_root = "DOT_SAGE/sage-conda"
           /\ last'.configure = (last'.CONDA_PREFIX # "")
           /\ last'.CONDA_PREFIX = "" => last'.result = "SetupError: no conda"
  ]_vars

C10_Witness ==
  /\ runs >= 2
  /\ ~ last.editable_mode
  /\ ~ last.copytree
  /\ rootConfigStatus
  /\ last.sage_root = "DOT_SAGE/sage-conda"
  /\ last.CONDA_PREFIX = ""
  /\ last.result = "SetupError: no conda"

====
